---- MODULE Spec2Model ----
(***************************************************************************)
(* State machines of the three React components of the LearningReact page: *)
(* the basic tic-tac-toe Game (ttt1app), the advanced tic-tac-toe Game     *)
(* (ttt2app) and ConnectFour (c4app).  Variables ending in 1 belong to the *)
(* basic game, those ending in 2 to the advanced game.                     *)
(*                                                                         *)
(* JavaScript arrays are 0-indexed; a history array is modelled as a TLA+  *)
(* sequence, so history entry k of the code is history[k + 1] here (see    *)
(* Entry).  A board (squares) is a function on 0..8 exactly as in the code.*)
(***************************************************************************)
EXTENDS Integers, Sequences, FiniteSets, TLC

\* JavaScript null where the other values are strings (a square, a winner)
Null == "null"

\* JavaScript null where the other values are numbers (a coordinate of a
\* position, selectedMove): no number of the program is negative
NullNum == -1

\* JavaScript null where the other values are arrays (the winning line)
NullLine == << >>

\* ------------------------------------------------------------------------
\* Bounds of the exploration
\* ------------------------------------------------------------------------

\* Tic-tac-toe: a click on an empty square is explored only when the board
\* it would give has at most MaxGaps pairs of an empty square followed (in
\* index order) by an occupied one.  Clicks on occupied squares are always
\* explored.
MaxGaps == 1

\* Connect Four: a drop that would be accepted is explored only while fewer
\* than MaxPieces pieces are on the board, and only in columns 0..MaxCol-1.
\* Rejected drops are always explored, and so are the drops of the games
\* of DeepGames, which are played to their end.
MaxPieces == 7

MaxCol == 4

\* Connect Four: the mouse enters the cells of columns 0..MaxHover-1 only.
MaxHover == 1

\* checkWinner as a function: on the boards it is called with, the placed
\* piece has at most MaxArm further pieces of the player next to it in each
\* direction of an axis (see CheckWinnerBoards).
MaxArm == 3

\* ------------------------------------------------------------------------
\* Tic-tac-toe: pure functions shared by both games (the two files hold
\* textually identical copies)
\* ------------------------------------------------------------------------

Cells == 0..8

Marks == {"X", "O"}

\* Array(9).fill(null)
EmptySquares == [c \in Cells |-> Null]

\* the initial history: one entry, the empty board, position [null, null]
InitialHistory == << [squares |-> EmptySquares, position |-> <<NullNum, NullNum>>] >>

\* history[k] of the code (0-indexed)
Entry(history, k) == history[k + 1]

\* the lines without the columns
lines_NoColumns ==
  << <<0, 1, 2>>, <<3, 4, 5>>, <<6, 7, 8>>,
     <<0, 4, 8>>, <<2, 4, 6>> >>

\* the lines with the diagonals listed first
lines_DiagonalsFirst ==
  << <<0, 4, 8>>, <<2, 4, 6>>,
     <<0, 1, 2>>, <<3, 4, 5>>, <<6, 7, 8>>,
     <<0, 3, 6>>, <<1, 4, 7>>, <<2, 5, 8>> >>

\* const lines = [...] of calculateWinner, in the code's order
lines ==
  << <<0, 1, 2>>, <<3, 4, 5>>, <<6, 7, 8>>,
     <<0, 3, 6>>, <<1, 4, 7>>, <<2, 5, 8>>,
     <<0, 4, 8>>, <<2, 4, 6>> >>

\* the test of the loop body: squares[a] && squares[a] === squares[b] && ...
LineMatches(squares, l) ==
  /\ squares[l[1]] # Null
  /\ squares[l[1]] = squares[l[2]]
  /\ squares[l[1]] = squares[l[3]]

RECURSIVE ScanLines(_, _)
\* the for loop of calculateWinner from index i (1-based here) on
ScanLines(squares, i) ==
  IF i > Len(lines) THEN <<Null, NullLine>>
  ELSE IF LineMatches(squares, lines[i]) THEN <<squares[lines[i][1]], lines[i]>>
  ELSE ScanLines(squares, i + 1)

\* calculateWinner(squares): <<winner, winningLine>> or <<null, null>>
calculateWinner(squares) == ScanLines(squares, 1)

\* squareCoords with row and column exchanged
squareCoords_Transposed(i) == << i % 3, i \div 3 >>

\* squareCoords(i): [Math.trunc(i / 3), i % 3]
squareCoords(i) == << i \div 3, i % 3 >>

\* the parity test inverted: O moves first
xIsNext_OddIsX(currentMove) == currentMove % 2 = 1

\* const xIsNext = currentMove % 2 === 0
xIsNext(currentMove) == currentMove % 2 = 0

\* const currentSquares = history[currentMove]?.squares || Array(9).fill(null)
currentSquares(history, currentMove) ==
  IF currentMove + 1 \in DOMAIN history
  THEN Entry(history, currentMove).squares
  ELSE EmptySquares

\* array[i] of JavaScript: reading an index the array does not hold gives
\* undefined, which every test of the code treats as it treats null
At(array, i) == IF i \in DOMAIN array THEN array[i] ELSE Null

\* the array after array[i] = value: the element is stored under index i
\* whether or not the array held that index
Stored(array, i, value) ==
  [c \in DOMAIN array \cup {i} |-> IF c = i THEN value ELSE array[c]]

\* handleClick without the test of the winner: play goes on after a win
handleClick_NoWinnerTest(squares, xNext, i) ==
  IF squares[i] # Null
  THEN [rejected |-> TRUE, nextSquares |-> squares]
  ELSE [rejected |-> FALSE,
        nextSquares |-> [squares EXCEPT ![i] = IF xNext THEN "X" ELSE "O"]]

\* handleClick without the test of the clicked square
handleClick_NoOccupiedTest(squares, xNext, i) ==
  IF calculateWinner(squares)[1] # Null
  THEN [rejected |-> TRUE, nextSquares |-> squares]
  ELSE [rejected |-> FALSE,
        nextSquares |-> [squares EXCEPT ![i] = IF xNext THEN "X" ELSE "O"]]

\* handleClick writing to the array it was given and to its neighbour: the
\* mark also lands in the next square
handleClick_TwoSquares(squares, xNext, i) ==
  IF squares[i] # Null \/ calculateWinner(squares)[1] # Null
  THEN [rejected |-> TRUE, nextSquares |-> squares]
  ELSE [rejected |-> FALSE,
        nextSquares |-> [c \in Cells |->
                           IF c = i \/ c = (i + 1) % 9
                           THEN (IF xNext THEN "X" ELSE "O")
                           ELSE squares[c]]]

\* Board.handleClick(i) up to the call of onPlay: rejected is the early
\* return of the validation, nextSquares the copy with the mover's mark
handleClick(squares, xNext, i) ==
  IF At(squares, i) # Null \/ calculateWinner(squares)[1] # Null
  THEN [rejected |-> TRUE, nextSquares |-> squares]
  ELSE [rejected |-> FALSE,
        nextSquares |-> Stored(squares, i, IF xNext THEN "X" ELSE "O")]

\* handlePlay slicing one entry short: the entry at the cursor is dropped too
handlePlay_DropsCursorEntry(history, currentMove, nextSquares, index) ==
  LET nextHistory ==
        Append(SubSeq(history, 1, currentMove),
               [squares |-> nextSquares, position |-> squareCoords(index)])
  IN  [history |-> nextHistory, currentMove |-> Len(nextHistory) - 1]

\* handlePlay without the slice: the new entry is appended to the whole history
handlePlay_NoTruncation(history, currentMove, nextSquares, index) ==
  LET nextHistory ==
        Append(history, [squares |-> nextSquares, position |-> squareCoords(index)])
  IN  [history |-> nextHistory, currentMove |-> Len(nextHistory) - 1]

\* Game.handlePlay(nextSquares, index) run in a closure that holds history
\* and currentMove: the values passed to setHistory and setCurrentMove
handlePlay(history, currentMove, nextSquares, index) ==
  LET nextHistory ==
        Append(SubSeq(history, 1, currentMove + 1),
               [squares |-> nextSquares, position |-> squareCoords(index)])
  IN  [history |-> nextHistory, currentMove |-> Len(nextHistory) - 1]

\* Game.jumpTo(nextMove) run on the state (history, currentMove): the state
\* it leaves; nextMove is given to setCurrentMove as it is
jumpTo(history, currentMove, nextMove) ==
  [history |-> history, currentMove |-> nextMove]

\* the draw test comparing the length with 9
status_Length9(squares, history, currentMove) ==
  LET w == calculateWinner(squares) IN
  IF w[1] # Null THEN <<"Winner", w[1]>>
  ELSE IF currentMove = Len(history) - 1 /\ Len(history) = 9 THEN <<"Draw">>
  ELSE <<"Next player", IF xIsNext(currentMove) THEN "X" ELSE "O">>

\* the draw test made before the winner test
status_DrawFirst(squares, history, currentMove) ==
  LET w == calculateWinner(squares) IN
  IF currentMove = Len(history) - 1 /\ Len(history) = 10 THEN <<"Draw">>
  ELSE IF w[1] # Null THEN <<"Winner", w[1]>>
  ELSE <<"Next player", IF xIsNext(currentMove) THEN "X" ELSE "O">>

\* The status line computed by Board on render
status(squares, history, currentMove) ==
  LET w == calculateWinner(squares) IN
  IF w[1] # Null THEN <<"Winner", w[1]>>
  ELSE IF currentMove = Len(history) - 1 /\ Len(history) = 10 THEN <<"Draw">>
  ELSE <<"Next player", IF xIsNext(currentMove) THEN "X" ELSE "O">>

\* a move list with one button too many
JumpButtons_OneMore(history) == 0..Len(history)

\* The move list: the indices that are rendered as a button calling
\* jumpTo(move); the last entry is rendered as plain text
JumpButtons(history) == { move \in 0..(Len(history) - 1) : move # Len(history) - 1 }

\* The move list: the indices whose entry is rendered as the text
\* "You are at move #" + move, without a button
TextEntries(history) == { move \in 0..(Len(history) - 1) : move = Len(history) - 1 }

\* The move list: const player = move % 2 === 0 ? "O" : "X"
MovePlayer(move) == IF move % 2 = 0 THEN "O" ELSE "X"

\* The move list: the entry is followed by its coordinates,
\* position[0] !== null
ShowsCoords(moveData) == moveData.position[1] # NullNum

\* ------------------------------------------------------------------------
\* Connect Four: constants and pure functions
\* ------------------------------------------------------------------------

ROWS == 6

COLS == 7

Players == {"red", "yellow"}

\* Array(ROWS).fill(null).map(() => Array(COLS).fill(null))
EmptyBoard == [r \in 0..(ROWS - 1) |-> [c \in 0..(COLS - 1) |-> Null]]

\* the directions with the diagonal (1,1) listed twice and (1,-1) missing
directions_OneDiagonal ==
  << << <<0, 1>>,  <<0, -1>> >>,
     << <<1, 0>>,  <<-1, 0>> >>,
     << <<1, 1>>,  <<-1, -1>> >>,
     << <<1, 1>>,  <<-1, -1>> >> >>

\* const directions = [...] of checkWinner: four axes, two directions each
directions ==
  << << <<0, 1>>,  <<0, -1>> >>,
     << <<1, 0>>,  <<-1, 0>> >>,
     << <<1, 1>>,  <<-1, -1>> >>,
     << <<1, -1>>, <<-1, 1>> >> >>

RECURSIVE Walk(_, _, _, _, _, _)
\* the while loop of checkWinner from cell (r, c) in direction (dr, dc): the
\* cells pushed to winningCells, in order
Walk(b, r, c, dr, dc, player) ==
  IF r >= 0 /\ r < ROWS /\ c >= 0 /\ c < COLS /\ b[r][c] = player
  THEN << <<r, c>> >> \o Walk(b, r + dr, c + dc, dr, dc, player)
  ELSE << >>

\* one iteration of the outer loop walking the first direction only
AxisCells_OneDirection(b, row, col, player, d) ==
  << <<row, col>> >>
    \o Walk(b, row + d[1][1], col + d[1][2], d[1][1], d[1][2], player)

\* winningCells at the end of one iteration of the outer loop (count is its
\* length): the placed cell, then the cells of both directions
AxisCells(b, row, col, player, d) ==
  << <<row, col>> >>
    \o Walk(b, row + d[1][1], col + d[1][2], d[1][1], d[1][2], player)
    \o Walk(b, row + d[2][1], col + d[2][2], d[2][1], d[2][2], player)

RECURSIVE ScanDirections(_, _, _, _, _)
\* the outer loop of checkWinner from axis k on
ScanDirections(b, row, col, player, k) ==
  IF k > Len(directions) THEN NullLine
  ELSE IF Len(AxisCells(b, row, col, player, directions[k])) >= 4
       THEN AxisCells(b, row, col, player, directions[k])
       ELSE ScanDirections(b, row, col, player, k + 1)

\* checkWinner(board, row, col, player): the winning cells, or null (a
\* returned array is never empty: it holds [row, col])
checkWinner(b, row, col, player) == ScanDirections(b, row, col, player, 1)

\* the row loop run from the top: the first empty cell found is the highest
FindRow_FromTop(b, col, row) ==
  IF \A r \in 0..(ROWS - 1) : b[r][col] # Null THEN NullNum
  ELSE CHOOSE r \in 0..(ROWS - 1) :
         b[r][col] = Null /\ \A q \in 0..(r - 1) : b[q][col] # Null

\* the row loop returning the top row when it ends without an empty cell
FindRow_TopWhenFull(b, col, row) ==
  IF \A r \in 0..(ROWS - 1) : b[r][col] # Null THEN 0
  ELSE CHOOSE r \in 0..(ROWS - 1) :
         b[r][col] = Null /\ \A q \in (r + 1)..(ROWS - 1) : b[q][col] # Null

\* the row loop stopping one row above the lowest empty cell
FindRow_RowAbove(b, col, row) ==
  IF \A r \in 0..(ROWS - 1) : b[r][col] # Null THEN NullNum
  ELSE LET low == CHOOSE r \in 0..(ROWS - 1) :
                    b[r][col] = Null /\ \A q \in (r + 1)..(ROWS - 1) : b[q][col] # Null
       IN  IF low > 0 THEN low - 1 ELSE low

RECURSIVE FindRow(_, _, _)
\* the for loop of dropPiece from `row` upwards: the first row whose cell of
\* column col is empty, NullNum when the loop ends without one
FindRow(b, col, row) ==
  IF row < 0 THEN NullNum
  ELSE IF At(b[row], col) = Null THEN row
  ELSE FindRow(b, col, row - 1)

\* dropPiece without the early return on a decided game
dropPiece_NoWinnerTest(st, col) ==
  LET row == FindRow(st.board, col, ROWS - 1) IN
  IF row = NullNum THEN st
  ELSE
    LET newBoard == [st.board EXCEPT ![row][col] = st.currentPlayer]
        winPositions == checkWinner(newBoard, row, col, st.currentPlayer)
    IN  [ board         |-> newBoard,
          winner        |-> IF winPositions # NullLine THEN st.currentPlayer ELSE st.winner,
          winningCells  |-> IF winPositions # NullLine THEN winPositions ELSE st.winningCells,
          currentPlayer |-> IF st.currentPlayer = "red" THEN "yellow" ELSE "red" ]

\* dropPiece passing the turn when the loop ends without an empty cell
dropPiece_FullColumnPassesTurn(st, col) ==
  IF st.winner # Null THEN st
  ELSE
    LET row == FindRow(st.board, col, ROWS - 1) IN
    IF row = NullNum
    THEN [st EXCEPT !.currentPlayer = IF st.currentPlayer = "red" THEN "yellow" ELSE "red"]
    ELSE
      LET newBoard == [st.board EXCEPT ![row][col] = st.currentPlayer]
          winPositions == checkWinner(newBoard, row, col, st.currentPlayer)
      IN  [ board         |-> newBoard,
            winner        |-> IF winPositions # NullLine THEN st.currentPlayer ELSE st.winner,
            winningCells  |-> IF winPositions # NullLine THEN winPositions ELSE st.winningCells,
            currentPlayer |-> IF st.currentPlayer = "red" THEN "yellow" ELSE "red" ]

\* dropPiece without the call of setWinningCells
dropPiece_NoWinningCells(st, col) ==
  IF st.winner # Null THEN st
  ELSE
    LET row == FindRow(st.board, col, ROWS - 1) IN
    IF row = NullNum THEN st
    ELSE
      LET newBoard == [st.board EXCEPT ![row][col] = st.currentPlayer]
          winPositions == checkWinner(newBoard, row, col, st.currentPlayer)
      IN  [ board         |-> newBoard,
            winner        |-> IF winPositions # NullLine THEN st.currentPlayer ELSE st.winner,
            winningCells  |-> st.winningCells,
            currentPlayer |-> IF st.currentPlayer = "red" THEN "yellow" ELSE "red" ]

\* dropPiece keeping the turn with the player whose drop wins
dropPiece_WinKeepsTurn(st, col) ==
  IF st.winner # Null THEN st
  ELSE
    LET row == FindRow(st.board, col, ROWS - 1) IN
    IF row = NullNum THEN st
    ELSE
      LET newBoard == [st.board EXCEPT ![row][col] = st.currentPlayer]
          winPositions == checkWinner(newBoard, row, col, st.currentPlayer)
      IN  IF winPositions # NullLine
          THEN [ board |-> newBoard, winner |-> st.currentPlayer,
                 winningCells |-> winPositions, currentPlayer |-> st.currentPlayer ]
          ELSE [ board |-> newBoard, winner |-> st.winner,
                 winningCells |-> st.winningCells,
                 currentPlayer |-> IF st.currentPlayer = "red" THEN "yellow" ELSE "red" ]

\* dropPiece(col) run on the state st: the state the setters leave
dropPiece(st, col) ==
  IF st.winner # Null THEN st
  ELSE
    LET row == FindRow(st.board, col, ROWS - 1) IN
    IF row = NullNum THEN st
    ELSE
      LET newBoard == [st.board EXCEPT ![row] = Stored(st.board[row], col, st.currentPlayer)]
          winPositions == checkWinner(newBoard, row, col, st.currentPlayer)
      IN  [ board         |-> newBoard,
            winner        |-> IF winPositions # NullLine THEN st.currentPlayer ELSE st.winner,
            winningCells  |-> IF winPositions # NullLine THEN winPositions ELSE st.winningCells,
            currentPlayer |-> IF st.currentPlayer = "red" THEN "yellow" ELSE "red" ]

\* the status line of ConnectFour
c4status(st) ==
  IF st.winner # Null THEN <<"Winner", st.winner>> ELSE <<"Next player", st.currentPlayer>>

\* ------------------------------------------------------------------------
\* State
\* ------------------------------------------------------------------------

VARIABLES
  history1, currentMove1, isAscending1,                \* basic Game (useState)
  history2, currentMove2, isAscending2, selectedMove2, \* advanced Game
  board2,                                              \* advanced Game: useMemo'd Board
  board, currentPlayer, winner, hoveredCol, winningCells, \* ConnectFour
  argSquares, retWinner,            \* a call of calculateWinner: argument, result
  argBoard, argCell, argPlayer, retCells \* a call of checkWinner: arguments, result

vars1 == << history1, currentMove1, isAscending1 >>
vars2 == << history2, currentMove2, isAscending2, selectedMove2, board2 >>
varsC4 == << board, currentPlayer, winner, hoveredCol, winningCells >>

varsCheck == << argBoard, argCell, argPlayer, retCells >>

varsCall == << argSquares, retWinner, varsCheck >>

vars == << vars1, vars2, varsC4, varsCall >>

\* retWinner before the call has returned
NotCalled == << "not called" >>

\* The props (and the handlePlay closure) a Board element of the advanced
\* game is built from in a render with the given state
BoardProps(history, currentMove) ==
  [ squares     |-> currentSquares(history, currentMove),
    history     |-> history,
    currentMove |-> currentMove ]

\* useMemo with the dependency list []: the element of the first render
useMemoBoard_BuiltOnce(prev, history, currentMove) == prev

\* useMemo with the dependency list [history.length]
useMemoBoard_KeyedOnLength(prev, history, currentMove) ==
  IF Len(prev.history) # Len(history)
  THEN BoardProps(history, currentMove)
  ELSE prev

\* useMemo(() => <Board .../>, [currentSquares, currentMove]): the element is
\* rebuilt when a dependency differs from the one of the previous render.
\* (Arrays are compared by identity in the code; a new array with the same
\* contents at the same currentMove would rebuild there and not here, so the
\* model rebuilds no more often than the code.)
useMemoBoard(prev, history, currentMove) ==
  IF prev.squares # currentSquares(history, currentMove) \/ prev.currentMove # currentMove
  THEN BoardProps(history, currentMove)
  ELSE prev

\* no call of checkWinner is in progress (the arguments are those of no call)
CheckWinnerNotCalled ==
  /\ argBoard = EmptyBoard
  /\ argCell = << NullNum, NullNum >>
  /\ argPlayer = Null
  /\ retCells = NotCalled

\* the components as mounted
Mounted ==
  /\ history1 = InitialHistory
  /\ currentMove1 = 0
  /\ isAscending1 = TRUE
  /\ history2 = InitialHistory
  /\ currentMove2 = 0
  /\ isAscending2 = TRUE
  /\ selectedMove2 = NullNum
  /\ board2 = BoardProps(InitialHistory, 0)
  /\ board = EmptyBoard
  /\ currentPlayer = "red"
  /\ winner = Null
  /\ hoveredCol = NullNum
  /\ winningCells = << >>

Init ==
  /\ Mounted
  /\ argSquares = EmptySquares
  /\ retWinner = NotCalled
  /\ CheckWinnerNotCalled

\* ------------------------------------------------------------------------
\* Operations of the basic game
\* ------------------------------------------------------------------------

\* a click on square i of a Board rendered with the props of the state
\* (history, currentMove): the state it leaves
click1(history, currentMove, i) ==
  LET squares == currentSquares(history, currentMove)
      click == handleClick(squares, xIsNext(currentMove), i)
  IN  IF click.rejected
      THEN [history |-> history, currentMove |-> currentMove]
      ELSE handlePlay(history, currentMove, click.nextSquares, i)

Click1Result(i) == click1(history1, currentMove1, i)

Click1(i) ==
  LET next == Click1Result(i) IN
  /\ history1' = next.history
  /\ currentMove1' = next.currentMove
  /\ UNCHANGED isAscending1

\* jumpTo that also drops the entries after nextMove
JumpTo1_Truncating(nextMove) ==
  /\ currentMove1' = nextMove
  /\ history1' = SubSeq(history1, 1, nextMove + 1)
  /\ UNCHANGED isAscending1

\* jumpTo(nextMove)
JumpTo1(nextMove) ==
  LET next == jumpTo(history1, currentMove1, nextMove) IN
  /\ history1' = next.history
  /\ currentMove1' = next.currentMove
  /\ UNCHANGED isAscending1

\* toggleOrder()
ToggleOrder1 ==
  /\ isAscending1' = ~isAscending1
  /\ UNCHANGED << history1, currentMove1 >>

\* ------------------------------------------------------------------------
\* Operations of the advanced game
\* ------------------------------------------------------------------------

\* a click on square i of the memoized Board element memo while the state
\* is (history, currentMove): the state it leaves
click2(memo, history, currentMove, i) ==
  LET click == handleClick(memo.squares, xIsNext(memo.currentMove), i)
  IN  IF click.rejected
      THEN [history |-> history, currentMove |-> currentMove]
      ELSE handlePlay(memo.history, memo.currentMove, click.nextSquares, i)

Click2Result(i) == click2(board2, history2, currentMove2, i)

Click2(i) ==
  LET next == Click2Result(i) IN
  /\ history2' = next.history
  /\ currentMove2' = next.currentMove
  /\ board2' = useMemoBoard(board2, history2', currentMove2')
  /\ UNCHANGED << isAscending2, selectedMove2 >>

\* jumpTo(nextMove)
JumpTo2(nextMove) ==
  LET next == jumpTo(history2, currentMove2, nextMove) IN
  /\ history2' = next.history
  /\ currentMove2' = next.currentMove
  /\ selectedMove2' = nextMove
  /\ board2' = useMemoBoard(board2, history2', currentMove2')
  /\ UNCHANGED isAscending2

\* toggleOrder()
ToggleOrder2 ==
  /\ isAscending2' = ~isAscending2
  /\ board2' = useMemoBoard(board2, history2, currentMove2)
  /\ UNCHANGED << history2, currentMove2, selectedMove2 >>

\* ------------------------------------------------------------------------
\* The page: the same user input is given to both tic-tac-toe games
\* ------------------------------------------------------------------------

\* the pairs of an empty square and an occupied square of larger index
Gaps(squares) ==
  Cardinality({ p \in Cells \X Cells :
                  p[1] < p[2] /\ squares[p[1]] = Null /\ squares[p[2]] # Null })

\* the empty squares whose filling gives a board of at most MaxGaps gaps
Explored(squares) ==
  { i \in Cells : /\ squares[i] = Null
                  /\ Gaps([squares EXCEPT ![i] = "X"]) <= MaxGaps }

ClickInputs ==
  { i \in Cells :
      \/ currentSquares(history1, currentMove1)[i] # Null
      \/ board2.squares[i] # Null
      \/ i \in Explored(currentSquares(history1, currentMove1))
      \/ i \in Explored(board2.squares) }

Click ==
  /\ \E i \in ClickInputs : Click1(i) /\ Click2(i)
  /\ UNCHANGED << varsC4, varsCall >>

JumpTo ==
  /\ \E move \in JumpButtons(history1) \cup JumpButtons(history2) :
       /\ IF move \in JumpButtons(history1) THEN JumpTo1(move) ELSE UNCHANGED vars1
       /\ IF move \in JumpButtons(history2) THEN JumpTo2(move) ELSE UNCHANGED vars2
  /\ UNCHANGED << varsC4, varsCall >>

ToggleOrder ==
  /\ ToggleOrder1 /\ ToggleOrder2
  /\ UNCHANGED << varsC4, varsCall >>

Next == Click \/ JumpTo \/ ToggleOrder

\* The two tic-tac-toe games
Spec == Init /\ [][Next]_vars

\* ------------------------------------------------------------------------
\* Operations of Connect Four
\* ------------------------------------------------------------------------

\* the state read by dropPiece
C4State ==
  [ board |-> board, currentPlayer |-> currentPlayer,
    winner |-> winner, winningCells |-> winningCells ]

Pieces(b) ==
  Cardinality({ rc \in (0..(ROWS - 1)) \X (0..(COLS - 1)) : b[rc[1]][rc[2]] # Null })

\* Games played to their end, as the columns clicked from the mounted
\* component: one that fills the board with no four in a row (each pair of
\* columns is filled by turns, so that columns 3, 4 and 5 start with
\* yellow), one that yellow wins on the diagonal (1,1) and one that yellow
\* wins on the diagonal (1,-1)
DeepGames ==
  << << 0, 3, 3, 0, 0, 3, 3, 0, 0, 3, 3, 0,
        1, 4, 4, 1, 1, 4, 4, 1, 1, 4, 4, 1,
        2, 5, 5, 2, 2, 5, 5, 2, 2, 5, 5, 2,
        6, 6, 6, 6, 6, 6 >>,
     << 0, 0, 0, 0, 1, 3, 1, 1, 2, 2 >>,
     << 1, 0, 2, 1, 2, 2, 3, 3, 3, 3 >> >>

\* the click of game g whose piece comes to rest in cell (r, c), every
\* click of the game being accepted: the click on column c that follows
\* ROWS - 1 - r earlier clicks on it; 0 when the game has no such click
LandsIn(g, r, c) ==
  LET ks == { k \in 1..Len(DeepGames[g]) :
                /\ DeepGames[g][k] = c
                /\ Cardinality({ j \in 1..(k - 1) : DeepGames[g][j] = c }) = ROWS - 1 - r }
  IN  IF ks = {} THEN 0 ELSE CHOOSE k \in ks : TRUE

\* the board after the first n clicks of game g: red makes the odd clicks
DeepBoard(g, n) ==
  [r \in 0..(ROWS - 1) |-> [c \in 0..(COLS - 1) |->
     LET k == LandsIn(g, r, c) IN
     IF k = 0 \/ k > n THEN Null
     ELSE IF k % 2 = 1 THEN "red" ELSE "yellow"]]

\* the clicks of the games of DeepGames: the board before the click and the
\* column clicked
DeepSteps ==
  UNION { { << DeepBoard(g, n), DeepGames[g][n + 1] >> : n \in 0..(Len(DeepGames[g]) - 1) }
          : g \in 1..Len(DeepGames) }

\* a click on column col continues one of the games of DeepGames
ContinuesDeepGame(b, col) == << b, col >> \in DeepSteps

\* onClick={() => dropPiece(colIndex)} of a cell of column col
DropPiece ==
  /\ \E col \in 0..(COLS - 1) :
       LET next == dropPiece(C4State, col) IN
       /\ IF next = C4State THEN TRUE
          ELSE IF col < MaxCol /\ Pieces(board) < MaxPieces THEN TRUE
          ELSE ContinuesDeepGame(board, col)
       /\ board' = next.board
       /\ currentPlayer' = next.currentPlayer
       /\ winner' = next.winner
       /\ winningCells' = next.winningCells
  /\ UNCHANGED << hoveredCol, vars1, vars2, varsCall >>

\* onMouseEnter={() => setHoveredCol(colIndex)}
MouseEnter ==
  /\ \E col \in 0..(COLS - 1) : col < MaxHover /\ hoveredCol' = col
  /\ UNCHANGED << board, currentPlayer, winner, winningCells, vars1, vars2, varsCall >>

\* onMouseLeave={() => setHoveredCol(null)}
MouseLeave ==
  /\ hoveredCol' = NullNum
  /\ UNCHANGED << board, currentPlayer, winner, winningCells, vars1, vars2, varsCall >>

\* the Restart button without the reset of the player to move
Restart_KeepsPlayer ==
  /\ board' = EmptyBoard
  /\ winner' = Null
  /\ winningCells' = << >>
  /\ hoveredCol' = NullNum
  /\ UNCHANGED << currentPlayer, vars1, vars2, varsCall >>

\* onClick of the Restart Game button
Restart ==
  /\ board' = EmptyBoard
  /\ winner' = Null
  /\ currentPlayer' = "red"
  /\ winningCells' = << >>
  /\ hoveredCol' = NullNum
  /\ UNCHANGED << vars1, vars2, varsCall >>

NextC4 == DropPiece \/ MouseEnter \/ MouseLeave \/ Restart

\* Connect Four
SpecC4 == Init /\ [][NextC4]_vars

\* Connect Four played without moving the mouse over the board between the
\* clicks: hoveredCol is read by the render only, dropPiece and Restart do
\* not read it
NextDrops == DropPiece \/ Restart

SpecDrops == Init /\ [][NextDrops]_vars

\* ------------------------------------------------------------------------
\* The page (index.js): the three components are rendered into separate
\* roots and share no state, so each behaves on the page as it does alone.
\* The page is explored one component at a time: the tic-tac-toe games are
\* used while Connect Four is as mounted, and Connect Four while the
\* tic-tac-toe games are as mounted.
\* ------------------------------------------------------------------------

TicTacToeAsMounted ==
  /\ history1 = InitialHistory /\ currentMove1 = 0 /\ isAscending1
  /\ history2 = InitialHistory /\ currentMove2 = 0 /\ isAscending2
  /\ selectedMove2 = NullNum

ConnectFourAsMounted ==
  /\ board = EmptyBoard /\ currentPlayer = "red" /\ winner = Null
  /\ hoveredCol = NullNum /\ winningCells = << >>

PageTicTacToe == ConnectFourAsMounted /\ Next

PageConnectFour == TicTacToeAsMounted /\ NextC4

NextPage == PageTicTacToe \/ PageConnectFour

SpecPage == Init /\ [][NextPage]_vars

\* The page played without moving the mouse over the Connect Four board
PlayConnectFour == TicTacToeAsMounted /\ NextDrops

NextPlay == PageTicTacToe \/ PlayConnectFour

SpecPlay == Init /\ [][NextPlay]_vars

\* ------------------------------------------------------------------------
\* calculateWinner as a function: it is called on any board over X, O and
\* null
\* ------------------------------------------------------------------------

InitCall ==
  /\ Mounted
  /\ argSquares \in [Cells -> Marks \cup {Null}]
  /\ retWinner = NotCalled
  /\ CheckWinnerNotCalled

CallCalculateWinner ==
  /\ retWinner = NotCalled
  /\ retWinner' = calculateWinner(argSquares)
  /\ UNCHANGED << argSquares, varsCheck, vars1, vars2, varsC4 >>

SpecCall == InitCall /\ [][CallCalculateWinner]_vars

\* ------------------------------------------------------------------------
\* checkWinner as a function.  dropPiece calls it with a board that holds
\* the player's piece in (row, col).  The boards explored: around the
\* placed piece, on each of at most two of the four axes, `first` pieces of
\* the player follow in the first direction of the axis and `second` in the
\* second one; the cell after each arm holds `stop`, every other cell of
\* the board holds `rest` (so with rest = player more of the player's
\* pieces lie beyond the stop).
\* ------------------------------------------------------------------------

\* the cells the piece is placed in: the corners, the middle of each edge
\* and of the board
ProbeCells == {0, 3, ROWS - 1} \X {0, 3, COLS - 1}

Arms == (0..MaxArm) \X (0..MaxArm)

\* the arms of the four axes: at most two axes have pieces next to the
\* placed one
ArmChoices ==
  { arms \in [1..4 -> Arms] :
      Cardinality({ k \in 1..4 : arms[k] # <<0, 0>> }) <= 2 }

\* what cell (r, c) holds on the board built around (row, col): the axis
\* and the direction of directions the cell lies in, and its distance
CellOf(row, col, player, arms, stop, rest, r, c) ==
  LET dr == r - row
      dc == c - col
      t == IF dr # 0 THEN (IF dr > 0 THEN dr ELSE -dr)
                     ELSE (IF dc > 0 THEN dc ELSE -dc)
      arm == IF dr = 0 THEN (IF dc > 0 THEN arms[1][1] ELSE arms[1][2])
             ELSE IF dc = 0 THEN (IF dr > 0 THEN arms[2][1] ELSE arms[2][2])
             ELSE IF dr = dc THEN (IF dr > 0 THEN arms[3][1] ELSE arms[3][2])
             ELSE IF dr = -dc THEN (IF dr > 0 THEN arms[4][1] ELSE arms[4][2])
             ELSE NullNum
  IN  IF t = 0 THEN player
      ELSE IF arm = NullNum THEN rest
      ELSE IF t <= arm THEN player
      ELSE IF t = arm + 1 THEN stop
      ELSE rest

CheckWinnerBoard(row, col, player, arms, stop, rest) ==
  [r \in 0..(ROWS - 1) |-> [c \in 0..(COLS - 1) |->
     CellOf(row, col, player, arms, stop, rest, r, c)]]

InitCheck ==
  /\ Mounted
  /\ argSquares = EmptySquares
  /\ retWinner = NotCalled
  /\ argPlayer \in Players
  /\ argCell \in ProbeCells
  /\ \E arms \in ArmChoices :
       \E stop \in (Players \ {argPlayer}) \cup {Null} :
         \E rest \in {Null, argPlayer} :
           argBoard = CheckWinnerBoard(argCell[1], argCell[2], argPlayer, arms, stop, rest)
  /\ retCells = NotCalled

CallCheckWinner ==
  /\ retCells = NotCalled
  /\ retCells' = checkWinner(argBoard, argCell[1], argCell[2], argPlayer)
  /\ UNCHANGED << argBoard, argCell, argPlayer, argSquares, retWinner,
                  vars1, vars2, varsC4 >>

SpecCheck == InitCheck /\ [][CallCheckWinner]_vars

\* ------------------------------------------------------------------------
\* Properties
\* ------------------------------------------------------------------------

\* the state of each tic-tac-toe game as a click leaves it
Now1 == [history |-> history1, currentMove |-> currentMove1]
Now2 == [history |-> history2, currentMove |-> currentMove2]

\* the board at the cursor
Squares1 == currentSquares(history1, currentMove1)
Squares2 == currentSquares(history2, currentMove2)

\* a click on square i is a successful move: it changes the state
Moves1(i) == Click1Result(i) # Now1
Moves2(i) == Click2Result(i) # Now2

\* history `after` is the entries 0..k of `before` followed by one new entry
TruncatedAndExtended(before, after, k) ==
  /\ Len(after) = k + 2
  /\ \A j \in 0..k : Entry(after, j) = Entry(before, j)

\* C1: truncation law, both games.  In every reachable state (cursor k,
\* history of any length n > k) a successful move on any square yields the
\* old entries 0..k followed by exactly one new entry and the cursor k + 1;
\* and a move made right after jumpTo(0) leaves a history of length 2.
C1_TruncationLaw ==
  /\ \A i \in Cells :
       /\ Moves1(i) =>
            /\ TruncatedAndExtended(history1, Click1Result(i).history, currentMove1)
            /\ Click1Result(i).currentMove = currentMove1 + 1
       /\ Moves2(i) =>
            /\ TruncatedAndExtended(history2, Click2Result(i).history, currentMove2)
            /\ Click2Result(i).currentMove = currentMove2 + 1
  /\ \A i \in Cells :
       /\ (0 \in JumpButtons(history1) /\ click1(history1, 0, i).history # history1)
            => Len(click1(history1, 0, i).history) = 2
       /\ (0 \in JumpButtons(history2)
             /\ click2(useMemoBoard(board2, history2, 0), history2, 0, i).history # history2)
            => Len(click2(useMemoBoard(board2, history2, 0), history2, 0, i).history) = 2

\* C1 witness: the last jump went to move k of a longer history and one move
\* was made since: the history has k + 2 entries and the cursor is k + 1
C1_Witness ==
  /\ selectedMove2 # NullNum
  /\ selectedMove2 >= 1
  /\ currentMove2 = selectedMove2 + 1
  /\ Len(history2) = selectedMove2 + 2
  /\ currentMove1 = currentMove2
  /\ Len(history1) = Len(history2)

\* C2: cursor invariant, both games: 0 <= currentMove < history.length and
\* history[0] is the empty board with a null position.
C2_CursorInvariant ==
  /\ 0 <= currentMove1 /\ currentMove1 < Len(history1)
  /\ 0 <= currentMove2 /\ currentMove2 < Len(history2)
  /\ Entry(history1, 0) = [squares |-> EmptySquares, position |-> <<NullNum, NullNum>>]
  /\ Entry(history2, 0) = [squares |-> EmptySquares, position |-> <<NullNum, NullNum>>]

\* C2 witness: squares were clicked, a jump went back and the order was toggled
C2_Witness ==
  /\ Len(history1) >= 4 /\ Len(history2) >= 4
  /\ currentMove1 = 2 /\ currentMove2 = 2 /\ selectedMove2 = 2
  /\ ~isAscending1 /\ ~isAscending2

\* C3: jumpTo(index) changes only the cursor.  Every step that is a
\* jumpTo(k) leaves the history (and the order flag) as it was and sets the
\* cursor to k, and jumpTo(currentMove) changes neither history nor cursor.
C3_JumpToFrame ==
  [][ /\ \A k \in 0..(Len(history1) - 1) :
           JumpTo1(k) =>
             /\ history1' = history1 /\ isAscending1' = isAscending1
             /\ currentMove1' = k
             /\ (k = currentMove1 => currentMove1' = currentMove1)
      /\ \A k \in 0..(Len(history2) - 1) :
           JumpTo2(k) =>
             /\ history2' = history2 /\ isAscending2' = isAscending2
             /\ currentMove2' = k
             /\ (k = currentMove2 => currentMove2' = currentMove2) ]_vars

\* C3 witness: both games after a jump back into a history of 4 or more entries
C3_Witness ==
  /\ selectedMove2 = 1 /\ currentMove2 = 1 /\ currentMove1 = 1
  /\ Len(history1) >= 4 /\ Len(history2) >= 4

\* the mark of the player who moves while the cursor is k
Mover(k) == IF k % 2 = 0 THEN "X" ELSE "O"

\* `after` is `before` with square i, which was empty, now holding mark,
\* and every other square as it was
OneSquareFilled(before, after, i, mark) ==
  /\ before[i] = Null
  /\ after[i] = mark
  /\ \A c \in Cells \ {i} : after[c] = before[c]

\* C4: a successful move on square i produces a board equal to the board at
\* the cursor in every square but i, which was empty and now holds the
\* mover's mark, and the entries kept (0..cursor) are not modified.
C4_MoveFrame ==
  \A i \in Cells :
    /\ Moves1(i) =>
         LET next == Click1Result(i) IN
         /\ OneSquareFilled(Squares1, currentSquares(next.history, next.currentMove),
                            i, Mover(currentMove1))
         /\ \A j \in 0..currentMove1 : Entry(next.history, j) = Entry(history1, j)
    /\ Moves2(i) =>
         LET next == Click2Result(i) IN
         /\ OneSquareFilled(Squares2, currentSquares(next.history, next.currentMove),
                            i, Mover(currentMove2))
         /\ \A j \in 0..currentMove2 : Entry(next.history, j) = Entry(history2, j)

\* C4 witness: a move was made on a board that already held marks, after a jump
C4_Witness ==
  /\ currentMove1 = 4 /\ currentMove2 = 4 /\ selectedMove2 = 3
  /\ Len(history1) = 5 /\ Len(history2) = 5

\* C5: a click on a square that is occupied on the board at the cursor is
\* rejected: history, cursor and the displayed board are unchanged.
C5_OccupiedRejected ==
  \A i \in Cells :
    /\ Squares1[i] # Null => Click1Result(i) = Now1
    /\ Squares2[i] # Null =>
         /\ Click2Result(i) = Now2
         /\ useMemoBoard(board2, Click2Result(i).history, Click2Result(i).currentMove)
              = board2

\* C5 witness: a board at the cursor with occupied squares, in play, reached
\* by a jump back
C5_Witness ==
  /\ currentMove1 = 3 /\ currentMove2 = 3 /\ selectedMove2 = 3
  /\ Squares1[0] # Null /\ Squares2[0] # Null
  /\ calculateWinner(Squares1)[1] = Null

\* C6: once the game is decided no move is accepted.  Tic-tac-toe: when the
\* board at the cursor has a winner, a click on any square leaves history
\* and cursor unchanged, and so it would with the cursor set on any entry k
\* of the history whose board has a winner.  Connect Four: when winner is
\* set, dropPiece on any column leaves board, currentPlayer, winner and
\* winningCells unchanged.
C6_DecidedRejects ==
  /\ calculateWinner(Squares1)[1] # Null => \A i \in Cells : Click1Result(i) = Now1
  /\ calculateWinner(Squares2)[1] # Null => \A i \in Cells : Click2Result(i) = Now2
  /\ \A k \in 0..(Len(history1) - 1) :
       calculateWinner(Entry(history1, k).squares)[1] # Null =>
         \A i \in Cells :
           click1(history1, k, i) = [history |-> history1, currentMove |-> k]
  /\ \A k \in 0..(Len(history2) - 1) :
       calculateWinner(Entry(history2, k).squares)[1] # Null =>
         \A i \in Cells :
           click2(useMemoBoard(board2, history2, k), history2, k, i)
             = [history |-> history2, currentMove |-> k]
  /\ winner # Null => \A col \in 0..(COLS - 1) : dropPiece(C4State, col) = C4State

\* a decided tic-tac-toe board at the cursor of both games, with empty squares
C6_WitnessTicTacToe ==
  /\ calculateWinner(Squares1)[1] # Null
  /\ calculateWinner(Squares2)[1] # Null
  /\ \E i \in Cells : Squares1[i] = Null /\ Squares2[i] = Null

\* a decided Connect Four game with a column that is not full
C6_WitnessConnectFour ==
  /\ winner # Null
  /\ \E col \in 0..(COLS - 1) : board[0][col] = Null

\* C6 witness: a decided game in which a move is still possible on the board
C6_Witness == C6_WitnessTicTacToe \/ C6_WitnessConnectFour

\* the lines in the order the claim gives: rows, columns, diagonals
ClaimedLines ==
  << <<0, 1, 2>>, <<3, 4, 5>>, <<6, 7, 8>>,
     <<0, 3, 6>>, <<1, 4, 7>>, <<2, 5, 8>>,
     <<0, 4, 8>>, <<2, 4, 6>> >>

\* the three cells of line l hold the same mark
Complete(squares, l) ==
  \E m \in Marks : squares[l[1]] = m /\ squares[l[2]] = m /\ squares[l[3]] = m

HasCompleteLine(squares) == \E k \in 1..8 : Complete(squares, ClaimedLines[k])

\* the first complete line in the claimed order
FirstComplete(squares) ==
  ClaimedLines[CHOOSE k \in 1..8 :
                 /\ Complete(squares, ClaimedLines[k])
                 /\ \A j \in 1..(k - 1) : ~Complete(squares, ClaimedLines[j])]

\* what the claims say calculateWinner returns
ExpectedWinner(squares) ==
  IF HasCompleteLine(squares)
  THEN << squares[FirstComplete(squares)[1]], FirstComplete(squares) >>
  ELSE << Null, NullLine >>

\* C7: calculateWinner(board), for any 3x3 board over X, O and empty, returns
\* the mark and the positions of the first line, in the order rows, columns,
\* diagonals, whose three cells hold the same non-empty mark, and no winner
\* and no line iff there is no such line; the empty board gives none and
\* [X,X,X,_,_,_,_,_,_] gives X with [0,1,2].
C7_CalculateWinner ==
  /\ retWinner # NotCalled =>
       /\ retWinner = ExpectedWinner(argSquares)
       /\ (retWinner = << Null, NullLine >>) <=> ~HasCompleteLine(argSquares)
  /\ calculateWinner(EmptySquares) = << Null, NullLine >>
  /\ calculateWinner([c \in Cells |-> IF c \in {0, 1, 2} THEN "X" ELSE Null])
       = << "X", <<0, 1, 2>> >>

\* C7 witness: the call has returned for a board with a complete column of
\* O and both diagonals of X: the diagonal 0,4,8 is reported
C7_Witness ==
  /\ argSquares = [c \in Cells |-> IF c \in {0, 2, 4, 6, 8} THEN "X" ELSE "O"]
  /\ retWinner = << "X", <<0, 4, 8>> >>

\* no square of the board is empty
Full(squares) == \A c \in Cells : squares[c] # Null

\* the status line each game shows: the advanced game shows the memoized Board
Status1 == status(Squares1, history1, currentMove1)
Status2 == status(board2.squares, board2.history, board2.currentMove)

\* C8: the status is "Draw!" if and only if the board at the cursor has no
\* empty square and no winner, in every reachable state of both games.
C8_DrawExactly ==
  /\ Status1 = << "Draw" >> <=> (Full(Squares1) /\ ~HasCompleteLine(Squares1))
  /\ Status2 = << "Draw" >> <=> (Full(Squares2) /\ ~HasCompleteLine(Squares2))

\* C8 witness: a draw reached in a branch played after a jump back
C8_Witness ==
  /\ Status1 = << "Draw" >> /\ Status2 = << "Draw" >>
  /\ selectedMove2 # NullNum

\* the winning line each game highlights
WinningLine1 == calculateWinner(Squares1)[2]
WinningLine2 == calculateWinner(board2.squares)[2]

\* C9 as claimed: whenever the board at the cursor contains a complete line
\* of one player's marks, the status is Won for that player with that
\* line's cells as the winning cells.
C9_AsClaimed ==
  \A k \in 1..8 :
    /\ Complete(Squares1, ClaimedLines[k]) =>
         /\ Status1 = << "Winner", Squares1[ClaimedLines[k][1]] >>
         /\ WinningLine1 = ClaimedLines[k]
    /\ Complete(Squares2, ClaimedLines[k]) =>
         /\ Status2 = << "Winner", Squares2[ClaimedLines[k][1]] >>
         /\ WinningLine2 = ClaimedLines[k]

RECURSIVE Replay(_, _)
\* the basic game after the clicks on the squares `clicks`, from state st
Replay(st, clicks) ==
  IF clicks = << >> THEN st
  ELSE Replay(click1(st.history, st.currentMove, Head(clicks)), Tail(clicks))

\* the end-to-end scenario: clicks on 0, 3, 1, 4, 2 from the start
Scenario == Replay([history |-> InitialHistory, currentMove |-> 0], <<0, 3, 1, 4, 2>>)

\* C9 amended: whenever the board at the cursor contains a complete line,
\* every complete line on it holds the same player's mark, the status is
\* Won for that player, never Draw or a next player, and the winning cells
\* are those of the first complete line in the order rows, columns,
\* diagonals.  The same holds of the status computed with the cursor on any
\* entry of the history, and the clicks 0,3,1,4,2 give Won X with [0,1,2].
C9_WonStatus ==
  /\ \A k \in 1..8 :
       /\ Complete(Squares1, ClaimedLines[k]) =>
            Status1 = << "Winner", Squares1[ClaimedLines[k][1]] >>
       /\ Complete(Squares2, ClaimedLines[k]) =>
            Status2 = << "Winner", Squares2[ClaimedLines[k][1]] >>
  /\ HasCompleteLine(Squares1) => WinningLine1 = FirstComplete(Squares1)
  /\ HasCompleteLine(Squares2) => WinningLine2 = FirstComplete(Squares2)
  /\ \A j \in 0..(Len(history1) - 1) :
       \A k \in 1..8 :
         Complete(Entry(history1, j).squares, ClaimedLines[k]) =>
           status(Entry(history1, j).squares, history1, j)
             = << "Winner", Entry(history1, j).squares[ClaimedLines[k][1]] >>
  /\ \A j \in 0..(Len(history2) - 1) :
       \A k \in 1..8 :
         Complete(Entry(history2, j).squares, ClaimedLines[k]) =>
           status(Entry(history2, j).squares, history2, j)
             = << "Winner", Entry(history2, j).squares[ClaimedLines[k][1]] >>
  /\ status(currentSquares(Scenario.history, Scenario.currentMove),
            Scenario.history, Scenario.currentMove) = << "Winner", "X" >>
  /\ calculateWinner(currentSquares(Scenario.history, Scenario.currentMove))[2]
       = <<0, 1, 2>>

\* C9 witness: the 9th move completes two lines at once on the full board
C9_Witness ==
  /\ currentMove1 = 9 /\ currentMove2 = 9
  /\ Full(Squares1) /\ Full(Squares2)
  /\ Cardinality({ k \in 1..8 : Complete(Squares1, ClaimedLines[k]) }) = 2
  /\ Cardinality({ k \in 1..8 : Complete(Squares2, ClaimedLines[k]) }) = 2
  /\ Status1[1] = "Winner" /\ Status2[1] = "Winner"

\* the number of squares holding mark m
CountMark(squares, m) == Cardinality({ c \in Cells : squares[c] = m })

\* C10: the player to move is determined by the parity of the cursor: a move
\* accepted while the cursor is k places X iff k is even and O iff k is odd,
\* and in every history entry the number of X minus the number of O is 0 or 1.
C10_ParityOfCursor ==
  /\ \A i \in Cells :
       /\ Moves1(i) =>
            LET next == Click1Result(i)
                placed == Entry(next.history, next.currentMove).squares[i]
            IN  /\ placed = "X" <=> currentMove1 % 2 = 0
                /\ placed = "O" <=> currentMove1 % 2 = 1
       /\ Moves2(i) =>
            LET next == Click2Result(i)
                placed == Entry(next.history, next.currentMove).squares[i]
            IN  /\ placed = "X" <=> currentMove2 % 2 = 0
                /\ placed = "O" <=> currentMove2 % 2 = 1
  /\ \A k \in 0..(Len(history1) - 1) :
       CountMark(Entry(history1, k).squares, "X")
         - CountMark(Entry(history1, k).squares, "O") \in {0, 1}
  /\ \A k \in 0..(Len(history2) - 1) :
       CountMark(Entry(history2, k).squares, "X")
         - CountMark(Entry(history2, k).squares, "O") \in {0, 1}

\* C10 witness: after a jump back to an odd cursor a move was made: O moved
C10_Witness ==
  /\ selectedMove2 = 3 /\ currentMove2 = 4 /\ currentMove1 = 4
  /\ CountMark(Squares1, "O") = 2 /\ CountMark(Squares1, "X") = 2
  /\ CountMark(Squares2, "O") = 2 /\ CountMark(Squares2, "X") = 2

\* the number of occupied squares of a board
Occupied(squares) == Cardinality({ c \in Cells : squares[c] # Null })

\* the squares in which two boards differ
Differing(a, b) == { c \in Cells : a[c] # b[c] }

\* C11: occupied cells equal move count, both games.  In every reachable
\* state, for every index i of the history the board of entry i has exactly
\* i occupied squares, and entry i (i >= 1) differs from entry i - 1 in
\* exactly one square.
C11_OccupiedEqualsIndex ==
  /\ \A i \in 0..(Len(history1) - 1) :
       /\ Occupied(Entry(history1, i).squares) = i
       /\ i >= 1 =>
            Cardinality(Differing(Entry(history1, i).squares,
                                  Entry(history1, i - 1).squares)) = 1
  /\ \A i \in 0..(Len(history2) - 1) :
       /\ Occupied(Entry(history2, i).squares) = i
       /\ i >= 1 =>
            Cardinality(Differing(Entry(history2, i).squares,
                                  Entry(history2, i - 1).squares)) = 1

\* C11 witness: a history of 5 or more entries whose last two entries were
\* played in a branch started by a jump back to move 2
C11_Witness ==
  /\ selectedMove2 = 2
  /\ Len(history1) >= 5 /\ Len(history2) >= 5
  /\ currentMove1 = Len(history1) - 1 /\ currentMove2 = Len(history2) - 1

\* the grid of Connect Four
GridRows == 0..(ROWS - 1)
GridCols == 0..(COLS - 1)

\* the empty cells of column col
EmptyRows(b, col) == { r \in GridRows : b[r][col] = Null }

\* the largest row index of a non-empty set of rows
Lowest(rows) == CHOOSE r \in rows : \A q \in rows : q <= r

\* dropPiece(col) is accepted: it changes the state
Drops(col) == dropPiece(C4State, col) # C4State

\* a board whose column 0 holds pieces in rows 5 and 4 only
TwoInColumn ==
  [r \in GridRows |-> [c \in GridCols |->
     IF c = 0 /\ r = 5 THEN "red" ELSE IF c = 0 /\ r = 4 THEN "yellow" ELSE Null]]

\* C12: Connect Four gravity.  In every reachable state an accepted
\* dropPiece(col) places the current player's piece in the empty cell of
\* column col with the largest row index and changes no other cell of the
\* board; with rows 5 and 4 of the column filled the piece lands in row 3.
C12_Gravity ==
  /\ \A col \in GridCols :
       Drops(col) =>
         LET next == dropPiece(C4State, col)
             row == Lowest(EmptyRows(board, col))
         IN  /\ EmptyRows(board, col) # {}
             /\ next.board[row][col] = currentPlayer
             /\ next.board = [board EXCEPT ![row][col] = next.board[row][col]]
  /\ LET next == dropPiece([board |-> TwoInColumn, currentPlayer |-> "red",
                            winner |-> Null, winningCells |-> << >>], 0)
     IN  next.board = [TwoInColumn EXCEPT ![3][0] = "red"]

\* C12 witness: column 0 holds pieces in rows 5, 4 and 3 and none above, the
\* other columns hold pieces too, and the game is not decided
C12_Witness ==
  /\ EmptyRows(board, 0) = {0, 1, 2}
  /\ board[5][1] # Null /\ board[4][1] # Null
  /\ winner = Null

\* C13: Connect Four full column.  In every reachable state dropPiece(col)
\* on a column whose 6 cells are all occupied leaves board, currentPlayer,
\* winner and winningCells unchanged.
C13_FullColumnRejected ==
  \A col \in GridCols :
    EmptyRows(board, col) = {} =>
      LET next == dropPiece(C4State, col) IN
      /\ next.board = board
      /\ next.currentPlayer = currentPlayer
      /\ next.winner = winner
      /\ next.winningCells = winningCells

\* C13 witness: a full column in a game that is not decided
C13_Witness ==
  /\ winner = Null
  /\ \E col \in GridCols : EmptyRows(board, col) = {}

\* the four axes in the order the claim gives: horizontal, vertical,
\* diagonal (1,1), diagonal (1,-1)
ClaimedAxes == << <<0, 1>>, <<1, 0>>, <<1, 1>>, <<1, -1>> >>

\* the cell t steps from (row, col) along axis k (t may be negative)
AxisCell(row, col, k, t) ==
  << row + t * ClaimedAxes[k][1], col + t * ClaimedAxes[k][2] >>

\* the cell is on the grid and holds a piece of player
Holds(b, cell, player) ==
  /\ cell[1] \in GridRows /\ cell[2] \in GridCols
  /\ b[cell[1]][cell[2]] = player

\* the maximal contiguous in-bounds run of player's cells along axis k that
\* contains (row, col): the cells joined to it by player's cells only
Run(b, row, col, player, k) ==
  { AxisCell(row, col, k, t) : t \in
      { t \in (-COLS)..COLS :
          \A s \in (IF t < 0 THEN t ELSE 0)..(IF t < 0 THEN 0 ELSE t) :
            Holds(b, AxisCell(row, col, k, s), player) } }

WinningAxes(b, row, col, player) ==
  { k \in 1..4 : Cardinality(Run(b, row, col, player, k)) >= 4 }

\* the first axis, in the claimed order, whose run has 4 cells or more
FirstWinningAxis(b, row, col, player) ==
  CHOOSE k \in WinningAxes(b, row, col, player) :
    \A j \in WinningAxes(b, row, col, player) : k <= j

\* the cells of a returned array
CellSet(cells) == { cells[n] : n \in 1..Len(cells) }

\* a board holding pieces of red in row 5, columns 0..n-1, and nothing else
RowOfRed(n) ==
  [r \in GridRows |-> [c \in GridCols |-> IF r = 5 /\ c < n THEN "red" ELSE Null]]

\* C14: checkWinner(board, row, col, player), called with a board holding
\* player's piece in (row, col), returns a win iff along at least one of the
\* four axes (horizontal, vertical, diagonal (1,1), diagonal (1,-1)) the
\* maximal contiguous in-bounds run of player's cells containing (row, col)
\* has length >= 4; the cells returned are exactly that run for the first
\* such axis, each once; null is returned when every run is shorter than 4.
\* Four pieces in row 5, columns 0..3, of an otherwise empty board give
\* exactly those 4 cells, and three give null.
C14_CheckWinner ==
  /\ retCells # NotCalled =>
       LET wins == WinningAxes(argBoard, argCell[1], argCell[2], argPlayer) IN
       /\ retCells # NullLine <=> wins # {}
       /\ wins # {} =>
            LET run == Run(argBoard, argCell[1], argCell[2], argPlayer,
                           FirstWinningAxis(argBoard, argCell[1], argCell[2], argPlayer))
            IN  /\ CellSet(retCells) = run
                /\ Len(retCells) = Cardinality(run)
  /\ \A c \in 0..3 :
       CellSet(checkWinner(RowOfRed(4), 5, c, "red")) = { <<5, 0>>, <<5, 1>>, <<5, 2>>, <<5, 3>> }
  /\ \A c \in 0..2 : checkWinner(RowOfRed(3), 5, c, "red") = NullLine

\* C14 witness: the call has returned a run of 5 cells or more on a later
\* axis for a board whose horizontal run through the placed piece has 3
\* cells, the piece being in the middle of the returned run
C14_Witness ==
  /\ retCells # NotCalled /\ retCells # NullLine
  /\ Len(retCells) >= 5
  /\ Cardinality(Run(argBoard, argCell[1], argCell[2], argPlayer, 1)) = 3
  /\ FirstWinningAxis(argBoard, argCell[1], argCell[2], argPlayer) >= 3
  /\ argCell = <<3, 3>>

\* the four cells from (r, c) along axis k are on the grid and hold pieces
\* of player p
FourAt(b, r, c, k, p) == \A t \in 0..3 : Holds(b, AxisCell(r, c, k, t), p)

\* the colours that have four contiguous pieces in some row, column or
\* diagonal anywhere on the board: the colours of the cells from which four
\* cells of that colour run along an axis
FourInARow(b) ==
  { b[cell[1]][cell[2]] : cell \in
      { cell \in GridRows \X GridCols :
          /\ b[cell[1]][cell[2]] # Null
          /\ \E k \in 1..4 : FourAt(b, cell[1], cell[2], k, b[cell[1]][cell[2]]) } }

\* C15: the incremental scan misses no win.  In every state reachable by
\* drops and restarts, winner is non-null if and only if the board contains
\* four contiguous same-colour pieces in some row, column or diagonal
\* anywhere on the board, and winner is the colour of those pieces.
C15_NoWinMissed ==
  LET fours == FourInARow(board) IN
  /\ winner # Null <=> fours # {}
  /\ \A p \in fours : winner = p

\* a game won by four pieces on a diagonal
C15_WitnessDiagonal ==
  /\ winner # Null
  /\ \E r \in GridRows : \E c \in GridCols : \E k \in {3, 4} :
       FourAt(board, r, c, k, winner)

\* C15 witness: a game won on the diagonal (1,-1) by a piece dropped on the
\* top end of the four
C15_Witness ==
  /\ winner = "yellow"
  /\ FourAt(board, 2, 3, 4, "yellow")
  /\ CellSet(winningCells) = { <<2, 3>>, <<3, 2>>, <<4, 1>>, <<5, 0>> }

\* no cell of the Connect Four board is empty
FullBoard(b) == \A r \in GridRows : \A c \in GridCols : b[r][c] # Null

\* C16 as claimed: when the Connect Four board has no empty cell and there
\* is no winner, the status reported is Draw, not a next player.
C16_FullBoardIsDraw ==
  (FullBoard(board) /\ winner = Null) => c4status(C4State) = << "Draw" >>

\* C17: Connect Four restart.  Every step that is a click on Restart, from
\* any reachable state (in progress, won or full), ends in exactly the
\* initial state: an empty 6x7 board, currentPlayer red, winner null,
\* winningCells empty, hoveredCol null; and in that state a drop on any
\* column is accepted again.
C17_RestartResets ==
  [][ Restart =>
        /\ board' = [r \in 0..5 |-> [c \in 0..6 |-> Null]]
        /\ currentPlayer' = "red"
        /\ winner' = Null
        /\ winningCells' = << >>
        /\ hoveredCol' = NullNum
        /\ LET after == [ board |-> board', currentPlayer |-> currentPlayer',
                          winner |-> winner', winningCells |-> winningCells' ]
           IN  \A col \in GridCols : dropPiece(after, col) # after ]_vars

\* a won game with the mouse over a column: no move is accepted and every
\* variable differs from its initial value
C17_WitnessWon ==
  /\ winner = "red" /\ currentPlayer = "yellow"
  /\ winningCells # << >> /\ hoveredCol # NullNum
  /\ \A col \in GridCols : dropPiece(C4State, col) = C4State

\* a full board without a winner with the mouse over a column
C17_WitnessFull ==
  /\ FullBoard(board) /\ winner = Null /\ hoveredCol # NullNum

\* C17 witness: a state in which no move is accepted, won or full, from
\* which Restart is clicked
C17_Witness == C17_WitnessWon \/ C17_WitnessFull

\* indices next to the range 0..history.length-1, on both sides
OutOfRange(history) == { -1, Len(history), Len(history) + 1 }

\* C18 as claimed: jumpTo(index) with an index outside 0..history.length-1
\* fails and leaves cursor and history unchanged, in both games.
C18_OutOfRangeRejected ==
  /\ \A index \in OutOfRange(history1) :
       jumpTo(history1, currentMove1, index) = Now1
  /\ \A index \in OutOfRange(history2) :
       jumpTo(history2, currentMove2, index) = Now2

\* positions next to the grid: cell indices past the 9 squares, column
\* indices past the 7 columns
CellsOffGrid == {9, 10}
ColsOffGrid == {7, 8}

\* C19 as claimed: a move request whose position lies outside the grid is
\* rejected and leaves the state unchanged, in both tic-tac-toe games and
\* in Connect Four, so every board keeps its fixed dimensions.
C19_OffGridRejected ==
  /\ \A i \in CellsOffGrid :
       /\ Click1Result(i) = Now1
       /\ Click2Result(i) = Now2
  /\ \A col \in ColsOffGrid : dropPiece(C4State, col) = C4State
  /\ \A i \in CellsOffGrid :
       /\ \A k \in 1..Len(Click1Result(i).history) :
            DOMAIN Click1Result(i).history[k].squares = 0..8
       /\ \A k \in 1..Len(Click2Result(i).history) :
            DOMAIN Click2Result(i).history[k].squares = 0..8
  /\ \A col \in ColsOffGrid :
       /\ DOMAIN dropPiece(C4State, col).board = 0..5
       /\ \A r \in 0..5 : DOMAIN dropPiece(C4State, col).board[r] = 0..6

\* C20 as claimed: time travel can reach any state in the history.  In
\* every reachable state of both games and for every index i of the
\* history a jumpTo(i) action is offered to the user (for the entry the
\* cursor is on none is needed), so that after a jump back to an earlier
\* entry the latest entry can be returned to.
C20_EveryEntryOffered ==
  /\ \A i \in 0..(Len(history1) - 1) :
       i # currentMove1 => i \in JumpButtons(history1)
  /\ \A i \in 0..(Len(history2) - 1) :
       i # currentMove2 => i \in JumpButtons(history2)

\* the complete lines of a board, as indices of ClaimedLines
CompleteLines(squares) == { k \in 1..8 : Complete(squares, ClaimedLines[k]) }

\* the cells of line k
LineCells(k) == { ClaimedLines[k][1], ClaimedLines[k][2], ClaimedLines[k][3] }

\* C21 as claimed: in legal play no reachable board, at the cursor or in the
\* history, has two or more distinct complete lines at the same time.
C21_AsClaimed ==
  /\ \A j \in 0..(Len(history1) - 1) :
       Cardinality(CompleteLines(Entry(history1, j).squares)) <= 1
  /\ \A j \in 0..(Len(history2) - 1) :
       Cardinality(CompleteLines(Entry(history2, j).squares)) <= 1

\* what holds of the complete lines of a board: there are at most two, they
\* hold the same mark, two of them cross in one cell, and calculateWinner
\* reports the first of them in the order rows, columns, diagonals
LinesOfOneMove(squares) ==
  LET complete == CompleteLines(squares) IN
  /\ Cardinality(complete) <= 2
  /\ \A k \in complete : \A l \in complete :
       /\ squares[ClaimedLines[k][1]] = squares[ClaimedLines[l][1]]
       /\ k # l => Cardinality(LineCells(k) \cap LineCells(l)) = 1
  /\ complete # {} =>
       /\ calculateWinner(squares)[2] = FirstComplete(squares)
       /\ calculateWinner(squares)[1] = squares[FirstComplete(squares)[1]]

\* C21 amended: in legal play every reachable board, at the cursor or in the
\* history, has at most two complete lines; all complete lines hold the
\* mark of one player; two complete lines cross in one cell (that of the
\* move that completed both); and the line reported by calculateWinner is
\* the first complete line in the order rows, columns, diagonals.
C21_LinesOfOnePlayer ==
  /\ \A j \in 0..(Len(history1) - 1) : LinesOfOneMove(Entry(history1, j).squares)
  /\ \A j \in 0..(Len(history2) - 1) : LinesOfOneMove(Entry(history2, j).squares)

\* C21 witness: a board with two complete lines of X at the cursor of both
\* games, only the first of which is reported
C21_Witness ==
  /\ Cardinality(CompleteLines(Squares1)) = 2
  /\ Squares2 = Squares1
  /\ \E k \in CompleteLines(Squares1) : ClaimedLines[k] # calculateWinner(Squares1)[2]
  /\ calculateWinner(Squares1)[1] = "X"

\* the number of pieces of colour p on the board
CountColour(b, p) ==
  Cardinality({ cell \in GridRows \X GridCols : b[cell[1]][cell[2]] = p })

\* the other player
Other(p) == IF p = "red" THEN "yellow" ELSE "red"

\* C22: the Connect Four turn flag never desynchronises.  In every
\* reachable state the turn passes exactly on an accepted drop (also on the
\* winning drop) and never on a rejected one; currentPlayer is red iff the
\* number of pieces on the board is even; and the number of red pieces
\* minus the number of yellow pieces is 0 or 1.
C22_TurnInStep ==
  /\ \A col \in GridCols :
       LET next == dropPiece(C4State, col) IN
       IF next.board # board
       THEN next.currentPlayer = Other(currentPlayer)
       ELSE next.currentPlayer = currentPlayer
  /\ currentPlayer = "red" <=> Pieces(board) % 2 = 0
  /\ CountColour(board, "red") - CountColour(board, "yellow") \in {0, 1}

\* C22 witness: yellow has just won with an even number of pieces on the
\* board: the turn has passed to red on the winning drop
C22_Witness ==
  /\ winner = "yellow"
  /\ currentPlayer = "red"
  /\ Pieces(board) = 10

\* the marks that have a complete line on the board
MarksWithLine(squares) ==
  { squares[ClaimedLines[k][1]] : k \in CompleteLines(squares) }

\* C23: only the last history entry can hold a decided board.  In every
\* reachable state of both games every entry at index < history.length - 1
\* has no complete line, and no entry's board contains complete lines of
\* both X and O.
C23_DecidedIsLast ==
  /\ \A j \in 0..(Len(history1) - 2) : ~HasCompleteLine(Entry(history1, j).squares)
  /\ \A j \in 0..(Len(history2) - 2) : ~HasCompleteLine(Entry(history2, j).squares)
  /\ \A j \in 0..(Len(history1) - 1) :
       Cardinality(MarksWithLine(Entry(history1, j).squares)) <= 1
  /\ \A j \in 0..(Len(history2) - 1) :
       Cardinality(MarksWithLine(Entry(history2, j).squares)) <= 1

\* C23 witness: the last entry holds a board won by O, the cursor has been
\* moved back from it, and the entries before it are undecided
C23_Witness ==
  /\ MarksWithLine(Entry(history1, Len(history1) - 1).squares) = {"O"}
  /\ MarksWithLine(Entry(history2, Len(history2) - 1).squares) = {"O"}
  /\ currentMove1 < Len(history1) - 1
  /\ currentMove2 < Len(history2) - 1

\* the cells lie contiguously on one line: they are n consecutive cells of
\* one axis, counted from one of them
OnOneLine(cells) ==
  \E start \in cells : \E k \in 1..4 :
    cells = { AxisCell(start[1], start[2], k, t) : t \in 0..(Cardinality(cells) - 1) }

Height(b, col) == Cardinality({ r \in GridRows : b[r][col] # Null })

\* C25: no floating pieces.  In every reachable Connect Four board, if cell
\* (r, c) is occupied then every cell (r', c) with r < r' <= 5 is occupied,
\* and each accepted drop increases the number of occupied cells by exactly
\* one.
C25_NoFloatingPieces ==
  /\ \A r \in GridRows : \A c \in GridCols :
       board[r][c] # Null => \A q \in (r + 1)..(ROWS - 1) : board[q][c] # Null
  /\ LET pieces == Pieces(board) IN
     \A col \in GridCols :
       LET next == dropPiece(C4State, col) IN
       next # C4State => Pieces(next.board) = pieces + 1

\* C25 witness: columns of heights 3, 2 and 1 stand side by side
C25_Witness ==
  /\ Height(board, 0) = 3
  /\ Height(board, 1) = 2
  /\ Height(board, 2) = 1
  /\ \E col \in GridCols : Drops(col)

\* C26 as claimed: in the move list of both games the entry shown as
\* "You are at move #n" (text without a jump button) is the entry at the
\* current position, n = currentMove, in every reachable state, also after
\* jumpTo to an earlier move.
C26_TextEntryIsCurrent ==
  /\ TextEntries(history1) = {currentMove1}
  /\ TextEntries(history2) = {currentMove2}

\* the move list attributes entry i of the history correctly
Attributed(history, i) ==
  LET pos == Entry(history, i).position
      cell == pos[1] * 3 + pos[2]
  IN  /\ pos[1] \in 0..2 /\ pos[2] \in 0..2
      /\ Differing(Entry(history, i - 1).squares, Entry(history, i).squares) = {cell}
      /\ MovePlayer(i) = Entry(history, i).squares[cell]
      /\ ShowsCoords(Entry(history, i))

\* C27: move-list attribution, both games.  In every reachable state, for
\* every history entry i >= 1 the stored position [row, col] has row and col
\* in 0..2, row*3+col is the one cell in which the board of entry i differs
\* from that of entry i-1, and the player label (i even ? O : X) equals the
\* mark in that cell; entry 0 has position [null, null] and shows no
\* coordinates.
C27_Attribution ==
  /\ \A i \in 1..(Len(history1) - 1) : Attributed(history1, i)
  /\ \A i \in 1..(Len(history2) - 1) : Attributed(history2, i)
  /\ Entry(history1, 0).position = <<NullNum, NullNum>>
  /\ Entry(history2, 0).position = <<NullNum, NullNum>>
  /\ ~ShowsCoords(Entry(history1, 0))
  /\ ~ShowsCoords(Entry(history2, 0))

\* C27 witness: X opened in row 0, column 1 and the fourth move, by O, went
\* to row 1, column 0
C27_Witness ==
  /\ Len(history1) >= 5 /\ Len(history2) >= 5
  /\ Entry(history1, 1).position = <<0, 1>> /\ Entry(history2, 1).position = <<0, 1>>
  /\ Entry(history1, 4).position = <<1, 0>> /\ Entry(history2, 4).position = <<1, 0>>
  /\ Entry(history1, 4).squares[3] = "O" /\ Entry(history2, 4).squares[3] = "O"

\* C28: the memoized Board of the advanced game is never stale.  In every
\* reachable state the squares, history and currentMove (and so the
\* handlePlay closure) captured by the memoized Board element equal the
\* current ones; every click that changes the history also changes
\* currentMove; a click commits exactly the move it would commit from a
\* freshly built element, and the status line read from the element is the
\* one of the current state.
C28_BoardNeverStale ==
  /\ board2 = BoardProps(history2, currentMove2)
  /\ \A i \in Cells :
       /\ Click2Result(i).history # history2
            => Click2Result(i).currentMove # currentMove2
       /\ Click2Result(i)
            = click2(BoardProps(history2, currentMove2), history2, currentMove2, i)
  /\ status(board2.squares, board2.history, board2.currentMove)
       = status(currentSquares(history2, currentMove2), history2, currentMove2)

\* C28 witness: after a jump back to move 1 of a longer history a move was
\* made on the truncated history, which has the length it had before, and
\* the element holds the new history
C28_Witness ==
  /\ selectedMove2 = 1
  /\ currentMove2 = 2
  /\ Len(history2) = 3
  /\ Len(board2.history) = 3
  /\ Occupied(board2.squares) = 2

\* C29: the basic and the advanced game are equivalent state machines.  Run
\* side by side on the same clicks, jumps and order toggles from their
\* initial states, in every reachable state they have equal history,
\* currentMove, isAscending, status line and winning line, they offer the
\* same jump buttons, and every click and every jump leaves equal history
\* and currentMove in both.
C29_GamesEquivalent ==
  /\ history1 = history2
  /\ currentMove1 = currentMove2
  /\ isAscending1 = isAscending2
  /\ Status1 = Status2
  /\ WinningLine1 = WinningLine2
  /\ JumpButtons(history1) = JumpButtons(history2)
  /\ \A i \in Cells : Click1Result(i) = Click2Result(i)
  /\ \A move \in JumpButtons(history1) :
       jumpTo(history1, currentMove1, move) = jumpTo(history2, currentMove2, move)

\* C29 witness: after a jump and with the list in descending order both
\* games show a game won by X
C29_Witness ==
  /\ ~isAscending1 /\ ~isAscending2
  /\ selectedMove2 # NullNum
  /\ Status1 = <<"Winner", "X">>
  /\ Status2 = <<"Winner", "X">>
  /\ Len(history1) >= 6

\* the occupied squares of the board a click on square i leaves at the cursor
OccupiedAfter(result) ==
  Occupied(currentSquares(result.history, result.currentMove))

\* C30: games end.  In every reachable state of the page: every accepted
\* click leaves a board at the cursor with exactly one more occupied square
\* and every accepted drop a board with exactly one more piece; the history
\* of either tic-tac-toe game has at most 10 entries and the board at the
\* cursor as many marks as the cursor says, at most 9; the Connect Four
\* board has at most 42 pieces; and a game that is won or whose board is
\* full accepts no move.  So without time travel or restart at most 9 moves
\* and at most 42 drops are accepted.
C30_GamesEnd ==
  /\ \A i \in Cells :
       LET next1 == Click1Result(i)
           next2 == Click2Result(i)
       IN  /\ next1 # Now1 => OccupiedAfter(next1) = Occupied(Squares1) + 1
           /\ next2 # Now2 => OccupiedAfter(next2) = Occupied(Squares2) + 1
  /\ Len(history1) <= 10 /\ Len(history2) <= 10
  /\ Occupied(Squares1) = currentMove1 /\ currentMove1 <= 9
  /\ Occupied(Squares2) = currentMove2 /\ currentMove2 <= 9
  /\ (HasCompleteLine(Squares1) \/ Full(Squares1)) => \A i \in Cells : ~Moves1(i)
  /\ (HasCompleteLine(Squares2) \/ Full(Squares2)) => \A i \in Cells : ~Moves2(i)
  /\ LET pieces == Pieces(board) IN
     /\ pieces <= ROWS * COLS
     /\ \A col \in GridCols :
          LET next == dropPiece(C4State, col) IN
          next # C4State => Pieces(next.board) = pieces + 1
  /\ (winner # Null \/ FullBoard(board)) => \A col \in GridCols : ~Drops(col)

\* nine moves were accepted in both tic-tac-toe games and the boards are full
C30_WitnessNineMoves ==
  /\ currentMove1 = 9 /\ Full(Squares1) /\ Len(history1) = 10
  /\ currentMove2 = 9 /\ Full(Squares2) /\ Len(history2) = 10

\* 42 drops were accepted and the Connect Four board is full
C30_WitnessFortyTwoDrops ==
  /\ Pieces(board) = ROWS * COLS
  /\ \A col \in GridCols : EmptyRows(board, col) = {}

\* C30 witness: a game played to its last possible move, on either board of
\* the page
C30_Witness == C30_WitnessNineMoves \/ C30_WitnessFortyTwoDrops

====
